---------------------------- MODULE Spec2Model ----------------------------
(***************************************************************************)
(* A model of calculator.py: the tokenizer, the recursive-descent parser,  *)
(* the symbol table, the evaluator, process_expression and the menu loop   *)
(* of main.                                                                *)
(*                                                                         *)
(* Text is a sequence of one-character strings.  Python's None is the      *)
(* empty tuple.  A Python float is modelled by the exact rational          *)
(* <<numerator, denominator>> in lowest terms (denominator > 0); the       *)
(* model therefore abstracts from IEEE rounding, and keeps what the        *)
(* interpreter does on a zero divisor: it raises ZeroDivisionError.        *)
(*                                                                         *)
(* Writes to the diagnostic files tokens.txt, parse_tree.txt and           *)
(* error.txt are taken to succeed; the write of symbol_table.txt in        *)
(* SymbolTable.save may fail (variable writable).                          *)
(***************************************************************************)
EXTENDS Integers, Sequences, FiniteSets, TLC

VARIABLES
    pc,            \* where main is: "menu", "file", "process1", "process2",
                   \* "exited", "aborted" (an exception left main)
    input_string,  \* the argument of the current/last process_expression call
    writable,      \* whether symbol_table.txt can be written during that call
    table,         \* SymbolTable.table
    result,        \* what the last process_expression call returned (or raised)
    parser,        \* the Parser object of the last call, as it was left
    parse_tree,    \* the local parse_tree of the last call
    assigned,      \* history: variable -> value of the latest "<var> = <value>" result
    nlines         \* number of process_expression calls made

vars == <<pc, input_string, writable, table, result, parser, parse_tree, assigned, nlines>>

None == <<>>

-----------------------------------------------------------------------------
(* Bounds of the input domains. *)

\* longest arbitrary line over ExprChars
MaxLen == 5
\* longest well-formed arithmetic line
MaxExprLen == 7
\* longest arbitrary line over AllChars
MaxLexLen == 4
\* longest line of the interactive/batch session
MaxBatchLen == 3
\* number of lines one session processes
MaxLines == 3

-----------------------------------------------------------------------------
(* Characters and the classes the token patterns use. *)

Digits == {"0", "1", "2"}
Letters == {"x"}
OperatorChars == {"+", "-", "*", "/"}
ParenChars == {"(", ")"}
Whitespace == {" "}

IsDigit(c) == c \in Digits
IsLetter(c) == c \in Letters
\* \w : letters, digits and the underscore
IsWord(c) == c \in Letters \cup Digits \cup {"_"}

RECURSIVE RunEnd(_, _, _)
\* Last index of the longest run of characters of class IsDigit (word = FALSE)
\* or IsWord (word = TRUE) starting at index i; i - 1 when the run is empty.
RunEnd(s, i, word) ==
    IF i <= Len(s) /\ (IF word THEN IsWord(s[i]) ELSE IsDigit(s[i]))
    THEN RunEnd(s, i + 1, word)
    ELSE i - 1

\* NUMBER: \d+(\.\d+)?  matched at i (s[i] is a digit): index of its last character
NumberEnd(s, i) ==
    LET j == RunEnd(s, i, FALSE)
    IN IF j + 2 <= Len(s) /\ s[j + 1] = "." /\ IsDigit(s[j + 2])
       THEN RunEnd(s, j + 2, FALSE)
       ELSE j

RECURSIVE Scan(_, _, _)
\* finditer over the alternation NUMBER | OPERATOR | PAREN | IDENTIFIER | ASSIGN:
\* at each index the first alternative that matches yields a token; a
\* character where none matches is passed over.
Scan(s, i, tokens) ==
    IF i > Len(s) THEN tokens
    ELSE IF IsDigit(s[i])
         THEN LET k == NumberEnd(s, i)
              IN Scan(s, k + 1, Append(tokens, <<"NUMBER", SubSeq(s, i, k)>>))
    ELSE IF s[i] \in OperatorChars
         THEN Scan(s, i + 1, Append(tokens, <<"OPERATOR", <<s[i]>>>>))
    ELSE IF s[i] \in ParenChars
         THEN Scan(s, i + 1, Append(tokens, <<"PAREN", <<s[i]>>>>))
    ELSE IF IsLetter(s[i])
         THEN LET k == RunEnd(s, i + 1, TRUE)
              IN Scan(s, k + 1, Append(tokens, <<"IDENTIFIER", SubSeq(s, i, k)>>))
    ELSE IF s[i] = "="
         THEN Scan(s, i + 1, Append(tokens, <<"ASSIGN", <<"=">>>>))
    ELSE Scan(s, i + 1, tokens)

tokenize(input) == Scan(input, 1, <<>>)

-----------------------------------------------------------------------------
(* Floats as exact rationals. *)

Abs(n) == IF n < 0 THEN -n ELSE n

RECURSIVE Gcd(_, _)
Gcd(a, b) == IF b = 0 THEN a ELSE Gcd(b, a % b)

\* the rational n/d (d # 0) in lowest terms with a positive denominator
Rat(n, d) ==
    LET g == Gcd(Abs(n), Abs(d))
        s == IF d < 0 THEN -1 ELSE 1
    IN <<(s * n) \div g, (s * d) \div g>>

DigitValue(c) == CASE c = "0" -> 0 [] c = "1" -> 1 [] c = "2" -> 2

RECURSIVE DigitsValue(_)
\* the integer a string of digits denotes
DigitsValue(ds) ==
    IF ds = <<>> THEN 0
    ELSE 10 * DigitsValue(SubSeq(ds, 1, Len(ds) - 1)) + DigitValue(ds[Len(ds)])

RECURSIVE Pow10(_)
Pow10(k) == IF k = 0 THEN 1 ELSE 10 * Pow10(k - 1)

DotIndex(text) ==
    IF \E i \in 1..Len(text) : text[i] = "."
    THEN CHOOSE i \in 1..Len(text) : text[i] = "."
    ELSE 0

\* float(text) for the text of a NUMBER token
float(text) ==
    LET p == DotIndex(text)
    IN IF p = 0 THEN Rat(DigitsValue(text), 1)
       ELSE LET frac == SubSeq(text, p + 1, Len(text))
            IN Rat(DigitsValue(SubSeq(text, 1, p - 1)) * Pow10(Len(frac))
                       + DigitsValue(frac),
                   Pow10(Len(frac)))

-----------------------------------------------------------------------------
(* Parser.  st is the Parser object: pos, error, and errors, the sequence  *)
(* of the values assigned to self.error with the cursor at each            *)
(* assignment.  A grammar function returns the node it returns in Python,  *)
(* the object as it leaves it, and the exception it raises (None when it   *)
(* returns normally).                                                      *)

NewParser == [pos |-> 0, error |-> None, errors |-> <<>>]

Return(node, st) == [node |-> node, st |-> st, exc |-> None]
Raise(type, message, st) == [node |-> None, st |-> st, exc |-> <<type, message>>]

peek(tokens, st) == IF st.pos < Len(tokens) THEN tokens[st.pos + 1] ELSE None

consume(st) == [st EXCEPT !.pos = @ + 1]

\* value in '+-' : Python's substring test
InPlusMinus(value) == value \in {<<>>, <<"+">>, <<"-">>, <<"+", "-">>}

\* a test that also lets "+" through at the level of "*" and "/"
InPlusStarSlash(value) == value \in {<<>>, <<"+">>, <<"*">>, <<"/">>}
\* value in '*/'
InStarSlash(value) == value \in {<<>>, <<"*">>, <<"/">>, <<"*", "/">>}

BinOp(op, left, right) == <<"bin_op", op, left, right>>

RECURSIVE parse_expression(_, _), expression_loop(_, _, _)
RECURSIVE parse_term(_, _), term_loop(_, _, _), parse_factor(_, _)

\* lines 78-83: expr is what the inner parse_expression call gave
CloseParen(tokens, expr) ==
    LET next == peek(tokens, expr.st)
    IN IF expr.exc # None THEN expr
       ELSE IF next # None /\ next[2] = <<")">>
       THEN Return(expr.node, consume(expr.st))
       ELSE Raise("SyntaxError", <<"Unmatched parenthesis">>, expr.st)

parse_factor(tokens, st) ==
    LET token == peek(tokens, st)
    IN IF token = None
       THEN Raise("TypeError", <<"'NoneType' object is not subscriptable">>, st)
       ELSE IF token[1] = "NUMBER"
       THEN Return(<<"number", token[2]>>, consume(st))
       ELSE IF token[1] = "IDENTIFIER"
       THEN Return(<<"identifier", token[2]>>, consume(st))
       ELSE IF token[2] = <<"(">>
       THEN CloseParen(tokens, parse_expression(tokens, consume(st)))
       ELSE Raise("SyntaxError", <<"Unexpected token", token>>, st)

\* lines 64-65: right is what parse_factor gave for the right operand
TermFold(tokens, token, node, right) ==
    IF right.exc # None THEN right
    ELSE term_loop(tokens, right.st, BinOp(token[2], node, right.node))

\* the while loop of parse_term, node being the node built so far
term_loop(tokens, st, node) ==
    LET token == peek(tokens, st)
    IN IF token # None /\ InStarSlash(token[2])
       THEN TermFold(tokens, token, node, parse_factor(tokens, consume(st)))
       ELSE Return(node, st)

\* lines 61-66: first is what the first parse_factor call gave
TermRest(tokens, first) ==
    IF first.exc # None THEN first ELSE term_loop(tokens, first.st, first.node)

parse_term(tokens, st) == TermRest(tokens, parse_factor(tokens, st))

\* lines 52-53: right is what parse_term gave for the right operand
ExpressionFold(tokens, token, node, right) ==
    IF right.exc # None THEN right
    ELSE expression_loop(tokens, right.st, BinOp(token[2], node, right.node))

\* the while loop of parse_expression
expression_loop(tokens, st, node) ==
    LET token == peek(tokens, st)
    IN IF token # None /\ InPlusMinus(token[2])
       THEN ExpressionFold(tokens, token, node, parse_term(tokens, consume(st)))
       ELSE Return(node, st)

\* lines 49-54: first is what the first parse_term call gave
ExpressionRest(tokens, first) ==
    IF first.exc # None THEN first ELSE expression_loop(tokens, first.st, first.node)

\* except SyntaxError as se: self.error = str(se); return None
\* (any other exception leaves parse_expression)
Catch(body) ==
    IF body.exc # None /\ body.exc[1] = "SyntaxError"
    THEN Return(None,
                [body.st EXCEPT
                    !.error = body.exc[2],
                    !.errors = Append(@, [message |-> body.exc[2], pos |-> body.st.pos])])
    ELSE body

parse_expression(tokens, st) == Catch(ExpressionRest(tokens, parse_term(tokens, st)))

-----------------------------------------------------------------------------
(* Symbol table. *)

EmptyTable == <<>>

\* self.table.get(variable, None)
get(t, variable) == IF variable \in DOMAIN t THEN t[variable] ELSE None

\* self.table[variable] = value
Store(t, variable, value) ==
    [k \in DOMAIN t \cup {variable} |-> IF k = variable THEN value ELSE t[k]]

\* set: the assignment, then save(), which raises when the file cannot be written
set(t, variable, value, canWrite) ==
    [table |-> Store(t, variable, value),
     exc |-> IF canWrite THEN None ELSE <<"OSError", <<"cannot write symbol_table.txt">>>>]

-----------------------------------------------------------------------------
(* Evaluation engine. *)

Value(v) == [value |-> v, exc |-> None]
Throw(type, message) == [value |-> None, exc |-> <<type, message>>]

Add(l, r) == Value(Rat(l[1] * r[2] + r[1] * l[2], l[2] * r[2]))
Subtract(l, r) == Value(Rat(l[1] * r[2] - r[1] * l[2], l[2] * r[2]))
Multiply(l, r) == Value(Rat(l[1] * r[1], l[2] * r[2]))

\* a division guarded so as to yield 0.0 on a zero divisor
DivideGuarded(l, r) ==
    IF r[1] = 0 THEN Value(<<0, 1>>) ELSE Value(Rat(l[1] * r[2], l[2] * r[1]))
\* left_val / right_val on floats
Divide(l, r) ==
    IF r[1] = 0 THEN Throw("ZeroDivisionError", <<"float division by zero">>)
    ELSE Value(Rat(l[1] * r[2], l[2] * r[1]))

RECURSIVE evaluate(_, _)

\* lines 133-140, given the operands' evaluations (the left one first)
Apply(op, left_val, right_val) ==
    IF left_val.exc # None THEN left_val
    ELSE IF right_val.exc # None THEN right_val
    ELSE IF op = <<"+">> THEN Add(left_val.value, right_val.value)
    ELSE IF op = <<"-">> THEN Subtract(left_val.value, right_val.value)
    ELSE IF op = <<"*">> THEN Multiply(left_val.value, right_val.value)
    ELSE IF op = <<"/">> THEN Divide(left_val.value, right_val.value)
    ELSE Value(None)

\* lines 126-129
Lookup(name, value) ==
    IF value = None THEN Throw("NameError", <<"Undefined variable", name>>)
    ELSE Value(value)

evaluate(node, t) ==
    IF node = None
    THEN Throw("TypeError", <<"'NoneType' object is not subscriptable">>)
    ELSE IF node[1] = "number" THEN Value(float(node[2]))
    ELSE IF node[1] = "identifier" THEN Lookup(node[2], get(t, node[2]))
    ELSE IF node[1] = "bin_op"
    THEN Apply(node[2], evaluate(node[3], t), evaluate(node[4], t))
    ELSE Value(None)

-----------------------------------------------------------------------------
(* process_expression. *)

RECURSIVE LStrip(_)
LStrip(s) == IF s # <<>> /\ s[1] \in Whitespace THEN LStrip(Tail(s)) ELSE s

RECURSIVE RStrip(_)
RStrip(s) ==
    IF s # <<>> /\ s[Len(s)] \in Whitespace THEN RStrip(SubSeq(s, 1, Len(s) - 1)) ELSE s

\* str.strip()
strip(s) == RStrip(LStrip(s))

\* '=' in input_string
HasAssign(s) == \E i \in 1..Len(s) : s[i] = "="

\* index of the first "=" of s (s has one)
FirstAssign(s) == CHOOSE i \in 1..Len(s) : s[i] = "=" /\ \A j \in 1..(i - 1) : s[j] # "="

\* a split at the first "=" only, as split('=', 1) would do
splitOnce(s) ==
    IF HasAssign(s)
    THEN <<SubSeq(s, 1, FirstAssign(s) - 1), SubSeq(s, FirstAssign(s) + 1, Len(s))>>
    ELSE <<s>>

RECURSIVE split(_)
\* input_string.split('=') : the pieces between the "=" characters, all of them
split(s) ==
    IF HasAssign(s)
    THEN <<SubSeq(s, 1, FirstAssign(s) - 1)>> \o split(SubSeq(s, FirstAssign(s) + 1, Len(s)))
    ELSE <<s>>

Outcome(kind, variable, value, message) ==
    [kind |-> kind, variable |-> variable, value |-> value, message |-> message]

NoResult == Outcome("none", None, None, None)

Returns(outcome, t, p, tree) ==
    [result |-> outcome, table |-> t, parser |-> p.st, parse_tree |-> tree]

\* lines 167-172: v is what evaluate gave, s what set then did
Assign(variable, p, t, v, s) ==
    IF v.exc # None
    THEN Returns(Outcome("EvaluationError", None, None, v.exc[2]), t, p, p.node)
    ELSE IF s.exc # None
    THEN Returns(Outcome("EvaluationError", None, None, s.exc[2]), s.table, p, p.node)
    ELSE Returns(Outcome("Assignment", variable, v.value, None), s.table, p, p.node)

\* lines 166-167
EvaluateAndSet(variable, p, t, canWrite, v) ==
    Assign(variable, p, t, v, set(t, variable, v.value, canWrite))

\* lines 164-176: p is what parser.parse_expression() gave
AssignmentParsed(variable, p, t, canWrite) ==
    IF p.exc # None
    THEN Returns(Outcome("Raised", None, None, p.exc), t, p, None)
    ELSE IF p.node # None /\ p.st.error = None
    THEN EvaluateAndSet(variable, p, t, canWrite, evaluate(p.node, t))
    ELSE Returns(Outcome("ParsingError", None, None, p.st.error), t, p, p.node)

\* the branch taken when the line holds "=": lines 157-176, given the pieces
AssignmentBranch(parts, t, canWrite) ==
    AssignmentParsed(strip(parts[1]),
                     parse_expression(tokenize(strip(parts[2])), NewParser),
                     t, canWrite)

\* lines 187-193: v is what evaluate gave
Evaluated(p, t, v) ==
    IF v.exc # None
    THEN Returns(Outcome("EvaluationError", None, None, v.exc[2]), t, p, p.node)
    ELSE Returns(Outcome("Result", None, v.value, None), t, p, p.node)

\* lines 180-193: p is what parse_expression gave inside parse_to_file,
\* which returns None for the tree when parser.error is set
ExpressionParsed(p, t) ==
    IF p.exc # None
    THEN Returns(Outcome("Raised", None, None, p.exc), t, p, None)
    ELSE IF p.st.error # None
    THEN Returns(Outcome("ParsingError", None, None, p.st.error), t, p, None)
    ELSE Evaluated(p, t, evaluate(p.node, t))

\* the other branch: lines 179-193
ExpressionBranch(input, t) ==
    ExpressionParsed(parse_expression(tokenize(input), NewParser), t)

process_expression(input, t, canWrite) ==
    IF HasAssign(input)
    THEN AssignmentBranch(split(input), t, canWrite)
    ELSE ExpressionBranch(input, t)

-----------------------------------------------------------------------------
(* Input domains. *)

\* every text over chars of at most n characters
Strings(chars, n) == UNION {[1..k -> chars] : k \in 0..n}

RECURSIVE WellFormed(_)
\* the texts of exactly n characters that the grammar derives from
\* expression, with one-digit numbers and no blanks
WellFormed(n) ==
    IF n < 1 THEN {}
    ELSE IF n = 1 THEN {<<d>> : d \in Digits}
    ELSE {<<"(">> \o e \o <<")">> : e \in WellFormed(n - 2)}
         \cup UNION {{a \o <<o>> \o b : a \in WellFormed(i), b \in WellFormed(n - 1 - i),
                                        o \in OperatorChars} : i \in 1..(n - 2)}

ExprChars == Digits \cup OperatorChars \cup ParenChars
AllChars == ExprChars \cup Letters \cup {".", "_", "=", "&", " "}
BatchChars == {"x", "1", "2", "=", "+"}

ExprLines == Strings(ExprChars, MaxLen) \cup UNION {WellFormed(n) : n \in 1..MaxExprLen}
LexLines == Strings(AllChars, MaxLexLen)
BatchLines == Strings(BatchChars, MaxBatchLen)

-----------------------------------------------------------------------------
(* main. *)

Init ==
    /\ pc = "menu"
    /\ input_string = <<>>
    /\ writable = TRUE
    /\ table = EmptyTable
    /\ result = NoResult
    /\ parser = NewParser
    /\ parse_tree = None
    /\ assigned = EmptyTable
    /\ nlines = 0

\* option 1: input("Enter the expression: ")
EnterExpression(lines, disk, limit) ==
    /\ pc = "menu"
    /\ nlines < limit
    /\ \E l \in lines, w \in disk :
          /\ input_string' = l
          /\ writable' = w
    /\ pc' = "process1"
    /\ UNCHANGED <<table, result, parser, parse_tree, assigned, nlines>>

\* option 2 with a file that exists: readlines()
ReadFromFile ==
    /\ pc = "menu"
    /\ pc' = "file"
    /\ UNCHANGED <<input_string, writable, table, result, parser, parse_tree,
                   assigned, nlines>>

\* one turn of the for loop over a line that is not blank
NextExpression(lines, disk, limit) ==
    /\ pc = "file"
    /\ nlines < limit
    /\ \E l \in lines, w \in disk :
          /\ strip(l) # <<>>
          /\ input_string' = strip(l)
          /\ writable' = w
    /\ pc' = "process2"
    /\ UNCHANGED <<table, result, parser, parse_tree, assigned, nlines>>

\* the for loop ends
EndOfFile ==
    /\ pc = "file"
    /\ pc' = "menu"
    /\ UNCHANGED <<input_string, writable, table, result, parser, parse_tree,
                   assigned, nlines>>

\* lines 214-215 and 227-229: r is what the call gave; an exception it raised
\* is caught nowhere in main
Returned(r) ==
    /\ result' = r.result
    /\ table' = r.table
    /\ parser' = r.parser
    /\ parse_tree' = r.parse_tree
    /\ assigned' = IF r.result.kind = "Assignment"
                   THEN Store(assigned, r.result.variable, r.result.value)
                   ELSE assigned
    /\ pc' = IF r.result.kind = "Raised" THEN "aborted"
             ELSE IF pc = "process1" THEN "menu" ELSE "file"

\* result = process_expression(input_string, tokenizer, symbol_table)
CallProcessExpression ==
    /\ pc \in {"process1", "process2"}
    /\ Returned(process_expression(input_string, table, writable))
    /\ nlines' = nlines + 1
    /\ UNCHANGED <<input_string, writable>>

\* option 3
Exit ==
    /\ pc = "menu"
    /\ pc' = "exited"
    /\ UNCHANGED <<input_string, writable, table, result, parser, parse_tree,
                   assigned, nlines>>

\* a session at the prompt and over files, symbol_table.txt writable or not
Next ==
    \/ EnterExpression(BatchLines, BOOLEAN, MaxLines)
    \/ ReadFromFile
    \/ NextExpression(BatchLines, BOOLEAN, MaxLines)
    \/ EndOfFile
    \/ CallProcessExpression
    \/ Exit

Spec == Init /\ [][Next]_vars

\* one arithmetic line entered at the prompt
NextExpr ==
    \/ EnterExpression(ExprLines, {TRUE}, 1)
    \/ CallProcessExpression
    \/ Exit

SpecExpr == Init /\ [][NextExpr]_vars

\* one line of any characters entered at the prompt
NextLex ==
    \/ EnterExpression(LexLines, BOOLEAN, 1)
    \/ CallProcessExpression
    \/ Exit

SpecLex == Init /\ [][NextLex]_vars

-----------------------------------------------------------------------------
(* What the properties below are stated with. *)

\* a call of process_expression has ended (returned or raised), so that
\* input_string, result, parser and parse_tree describe that call
Processed == nlines >= 1 /\ pc \notin {"process1", "process2"}

Failures == {"TokenizationError", "ParsingError", "EvaluationError"}

\* the tokens the parser of the call on line was given
ParserInput(line) ==
    IF HasAssign(line) THEN tokenize(strip(split(line)[2])) ELSE tokenize(line)

\* Reference evaluation of a variable-free token sequence, by the grammar's
\* meaning and not by descent: the last "+" or "-" outside all parentheses
\* is applied last; without one, the last "*" or "/" outside all
\* parentheses; without one, the sequence is a number or a parenthesised
\* expression.  The answer is <<"reject">>, <<"divzero">> or <<"value", q>>.
Count(ts, i, paren) == Cardinality({j \in 1..(i - 1) : ts[j] = <<"PAREN", <<paren>>>>})

TopLevel(ts, ops) ==
    {i \in 1..Len(ts) : /\ ts[i][1] = "OPERATOR"
                        /\ ts[i][2][1] \in ops
                        /\ Count(ts, i, "(") = Count(ts, i, ")")}

Last(S) == CHOOSE i \in S : \A j \in S : j <= i

RECURSIVE RefDecimal(_, _, _)
\* the number a NUMBER token's text denotes, as <<numerator, denominator>>,
\* read digit by digit from the left on top of the number acc read so far;
\* frac says that the decimal point has been passed
RefDecimal(text, acc, frac) ==
    IF text = <<>> THEN acc
    ELSE IF text[1] = "." THEN RefDecimal(Tail(text), acc, TRUE)
    ELSE LET d == CHOOSE n \in 0..9 : ToString(n) = text[1]
         IN RefDecimal(Tail(text),
                       <<10 * acc[1] + d, IF frac THEN 10 * acc[2] ELSE acc[2]>>,
                       frac)

\* the same number
Same(a, b) == a[1] * b[2] = b[1] * a[2]

RefApply(op, l, r) ==
    IF l = <<"reject">> \/ r = <<"reject">> THEN <<"reject">>
    ELSE IF l = <<"divzero">> \/ r = <<"divzero">> THEN <<"divzero">>
    ELSE LET a == l[2]
             b == r[2]
         IN CASE op = "+" -> <<"value", <<a[1] * b[2] + b[1] * a[2], a[2] * b[2]>>>>
              [] op = "-" -> <<"value", <<a[1] * b[2] - b[1] * a[2], a[2] * b[2]>>>>
              [] op = "*" -> <<"value", <<a[1] * b[1], a[2] * b[2]>>>>
              [] op = "/" -> IF b[1] = 0 THEN <<"divzero">>
                             ELSE <<"value", <<a[1] * b[2], a[2] * b[1]>>>>

RECURSIVE RefEval(_)

RefSplit(ts, i) ==
    RefApply(ts[i][2][1], RefEval(SubSeq(ts, 1, i - 1)), RefEval(SubSeq(ts, i + 1, Len(ts))))

RefEval(ts) ==
    IF ts = <<>> THEN <<"reject">>
    ELSE IF TopLevel(ts, {"+", "-"}) # {} THEN RefSplit(ts, Last(TopLevel(ts, {"+", "-"})))
    ELSE IF TopLevel(ts, {"*", "/"}) # {} THEN RefSplit(ts, Last(TopLevel(ts, {"*", "/"})))
    ELSE IF Len(ts) = 1
    THEN IF ts[1][1] = "NUMBER" THEN <<"value", RefDecimal(ts[1][2], <<0, 1>>, FALSE)>>
         ELSE <<"reject">>
    ELSE IF ts[1] = <<"PAREN", <<"(">>>> /\ ts[Len(ts)] = <<"PAREN", <<")">>>>
    THEN RefEval(SubSeq(ts, 2, Len(ts) - 1))
    ELSE <<"reject">>

RefAccepts(ts) == RefEval(ts) # <<"reject">>

-----------------------------------------------------------------------------
(* C1: precedence, associativity, parentheses (SpecExpr). *)

\* C1, as claimed: every variable-free token sequence the grammar accepts in
\* full, processed as a line without "=", gives "Result: v" with v the
\* reference value.
C1_EveryAcceptedSequenceHasItsValue ==
    (Processed /\ ~HasAssign(input_string) /\ RefAccepts(tokenize(input_string)))
        => /\ result.kind = "Result"
           /\ RefEval(tokenize(input_string))[1] = "value"
                  => Same(result.value, RefEval(tokenize(input_string))[2])

\* C1, amended: the same for the accepted sequences whose reference
\* evaluation divides by zero nowhere; the others give the evaluation
\* failure of C7 and no value.
C1_AcceptedSequenceHasItsValue ==
    (Processed /\ ~HasAssign(input_string)
              /\ RefEval(tokenize(input_string))[1] = "value")
        => /\ result.kind = "Result"
           /\ Same(result.value, RefEval(tokenize(input_string))[2])

\* "(1+2)*2" was processed and gave 6, where "1+2*2" gives 5
C1_Witness ==
    /\ Processed
    /\ input_string = <<"(", "1", "+", "2", ")", "*", "2">>
    /\ result.kind = "Result"
    /\ result.value = <<6, 1>>

-----------------------------------------------------------------------------
(* C7: division by zero (SpecExpr). *)

\* C7, as claimed: a division by zero gives a numeric value and no failure.
C7_DivisionByZeroYieldsValue ==
    (Processed /\ ~HasAssign(input_string)
              /\ RefEval(tokenize(input_string)) = <<"divzero">>)
        => result.kind \in {"Result", "Assignment"}

\* C7, amended: a division by zero is reported as the failure
\* "Evaluation error: float division by zero", always the same one, and the
\* table is as it was.
C7_DivisionByZeroIsEvaluationError ==
    (Processed /\ ~HasAssign(input_string)
              /\ RefEval(tokenize(input_string)) = <<"divzero">>)
        => /\ result = Outcome("EvaluationError", None, None, <<"float division by zero">>)
           /\ table = EmptyTable

\* "1/(1-1)" was processed: the right operand of "/" evaluates to zero
C7_Witness ==
    /\ Processed
    /\ input_string = <<"1", "/", "(", "1", "-", "1", ")">>
    /\ result.kind = "EvaluationError"

-----------------------------------------------------------------------------
(* C6 and C9: parse failures (SpecExpr). *)

\* a factor is required where there is no token or a wrong one, or a
\* parenthesis is left open: no token at all; an accepted sequence followed
\* by an operator; a first token that starts no factor; "(" followed by an
\* accepted sequence and nothing else
FactorMissing(ts) ==
    \/ ts = <<>>
    \/ /\ ts # <<>>
       /\ \/ ts[Len(ts)][1] = "OPERATOR" /\ RefAccepts(SubSeq(ts, 1, Len(ts) - 1))
          \/ ts[1][1] = "OPERATOR"
          \/ ts[1] = <<"PAREN", <<")">>>>
          \/ ts[1] = <<"PAREN", <<"(">>>> /\ RefAccepts(Tail(ts))

\* C6, as claimed: such a token sequence gives "Parsing error: ...".
C6_MissingFactorIsParsingError ==
    (Processed /\ FactorMissing(ParserInput(input_string)))
        => result.kind = "ParsingError"

\* C9, as claimed: when the parser detected a failure, it detected one only,
\* the cursor is where it was at that failure, no node is returned, and the
\* message reported is that first failure's.
C9_ParsingStopsAtFirstFailure ==
    (Processed /\ parser.error # None)
        => /\ Len(parser.errors) = 1
           /\ parser.pos = parser.errors[1].pos
           /\ parse_tree = None
           /\ result = Outcome("ParsingError", None, None, parser.errors[1].message)

-----------------------------------------------------------------------------
(* C5 and C8: characters no pattern matches, lines with several "=" (SpecLex). *)

\* not blank and in no token pattern
Unmatched(c) ==
    c \notin Whitespace \cup Digits \cup Letters \cup OperatorChars \cup ParenChars
             \cup {".", "_", "="}

\* C5, as claimed, of the calls that return: a line with a character that no
\* pattern matches gives no value and no assignment, and the failure it gives
\* is a tokenization failure.
C5_UnmatchedCharacterIsLexingError ==
    (Processed /\ \E i \in 1..Len(input_string) : Unmatched(input_string[i]))
        => /\ result.kind \notin {"Result", "Assignment"}
           /\ result.kind \in Failures => result.kind = "TokenizationError"

AssignCount(s) == Cardinality({i \in 1..Len(s) : s[i] = "="})

\* index of the second "=" of s (s has two)
SecondAssign(s) ==
    CHOOSE i \in 1..Len(s) :
        s[i] = "=" /\ Cardinality({j \in 1..(i - 1) : s[j] = "="}) = 1

\* C8, as claimed: with two or more "=", the line is processed as the
\* assignment of the whole text after the first "=" to the text before it.
C8_ExpressionIsWholeRemainder ==
    (Processed /\ AssignCount(input_string) >= 2)
        => /\ result = AssignmentBranch(splitOnce(input_string), EmptyTable, writable).result
           /\ table = AssignmentBranch(splitOnce(input_string), EmptyTable, writable).table

\* C8, amended: with two or more "=", the target is the trimmed text before
\* the first "=", the expression is the trimmed text between the first and
\* the second "=", and the line is processed as the line cut before its
\* second "=" is.
C8_ExpressionEndsAtSecondAssign ==
    (Processed /\ AssignCount(input_string) >= 2)
        => /\ result = process_expression(SubSeq(input_string, 1, SecondAssign(input_string) - 1),
                                          EmptyTable, writable).result
           /\ table = process_expression(SubSeq(input_string, 1, SecondAssign(input_string) - 1),
                                         EmptyTable, writable).table
           /\ result.kind = "Assignment"
                  => result.variable
                         = strip(SubSeq(input_string, 1, FirstAssign(input_string) - 1))

\* a line with two "=" was processed and assigned
C8_Witness ==
    /\ Processed
    /\ AssignCount(input_string) >= 2
    /\ result.kind = "Assignment"
    /\ table # EmptyTable

-----------------------------------------------------------------------------
(* C2, C3, C4, C10: the session (Spec). *)

\* a letter followed by letters and digits
IsIdentifier(s) ==
    /\ s # <<>>
    /\ IsLetter(s[1])
    /\ \A i \in 2..Len(s) : IsLetter(s[i]) \/ IsDigit(s[i])

\* C2, as claimed: the line that is the identifier x alone gives the value of
\* the latest "x = v" result, or the undefined-variable failure naming x when
\* there was none.
C2_VariableHasLatestAssignedValue ==
    (Processed /\ IsIdentifier(input_string))
        => result = IF input_string \in DOMAIN assigned
                    THEN Outcome("Result", None, assigned[input_string], None)
                    ELSE Outcome("EvaluationError", None, None,
                                 <<"Undefined variable", input_string>>)

\* C3, as claimed: a call that ends in a failure leaves the table as it was.
C3_FailureLeavesTableUnchanged ==
    [][(pc \in {"process1", "process2"} /\ result'.kind \in Failures) => table' = table]_vars

\* C4, as claimed: every call ends in an outcome and none in an exception
\* that ends main.
C4_EveryLineHasAnOutcome ==
    /\ pc # "aborted"
    /\ Processed => result.kind \in Failures \cup {"Result", "Assignment"}

\* C10, as claimed: every key of the table is an identifier.
C10_KeysAreIdentifiers == \A k \in DOMAIN table : IsIdentifier(k)

=============================================================================
